---- MODULE Spec2Model ----
(***************************************************************************)
(* A model of the langium runtime's diagnostics provider                   *)
(* (packages/langium/src/lsp/pull-diagnostic-provider.ts), of its          *)
(* validation registry (ValidationRegistry), of its parser                 *)
(* (LangiumParser) and of its document builder (DefaultDocumentBuilder).   *)
(*                                                                         *)
(* ProviderSpec : DefaultPullDiagnosticProvider with the document builder  *)
(*                it subscribes to and waits on.                           *)
(* RegistrySpec : ValidationRegistry with a runner that executes the       *)
(*                checks it hands out.                                     *)
(* ParserSpec   : LangiumParser with the rule bodies that call its         *)
(*                operations, the CST node builder and the linker.         *)
(* BuilderSpec  : DefaultDocumentBuilder.build with the parser, the scope  *)
(*                computation, the validator and the connection it calls.  *)
(***************************************************************************)
EXTENDS Integers, Sequences, FiniteSets

(***************************************************************************)
(* Bounds of the model.                                                    *)
(***************************************************************************)
\* the provider mints at most this many result ids
MaxId == 3
\* every document is changed or deleted at most this many times
MaxVersion == 1

(***************************************************************************)
(* Documents and URIs.  A URI is an object: the Map of the provider is     *)
(* keyed by the object, not by the string it carries.  Every document      *)
(* holds one URI object ("doc"); an update notification may carry that     *)
(* object or another one with the same string ("msg").                     *)
(***************************************************************************)
Docs == {"d1", "d2"}

UriStrings == {"file:///d1", "file:///d2"}

UriObjects == [str : UriStrings, obj : {"doc", "msg"}]

\* document.uri
DocUri(d) == [str |-> IF d = "d1" THEN "file:///d1" ELSE "file:///d2", obj |-> "doc"]

\* the document a URI string identifies
DocOf(s) == CHOOSE d \in Docs : DocUri(d).str = s

\* the concurrent getDocumentDiagnostics calls
Calls == {"c1", "c2"}

(***************************************************************************)
(* resultId: the decimal text of the counter, `${this.nextId}`, as the     *)
(* sequence of its digits.                                                 *)
(***************************************************************************)
RECURSIVE NumberToString(_)
NumberToString(n) == IF n < 10 THEN <<n>> ELSE NumberToString(n \div 10) \o <<n % 10>>

\* diagnosticParams.previousResultId: absent, or a string
NoPreviousResultId == [present |-> FALSE, str |-> <<>>]

PreviousResultIds ==
    {NoPreviousResultId} \cup
    [present : {TRUE}, str : {<<>>} \cup {NumberToString(n) : n \in 0..MaxId}]

\* the diagnostics the validator computes for a content version of a document
Diagnostics(d, v) == <<d, v>>

\* document.diagnostics of a document that is not validated
UndefinedDiagnostics == <<>>

NoResult == [kind |-> "none"]

CancellationFailure == [kind |-> "OperationCancelled"]

NoDoc == "none"

VARIABLES
    nextId,            \* DefaultPullDiagnosticProvider.nextId
    existingReports,   \* DefaultPullDiagnosticProvider.existingReports (a Map)
    docState,          \* LangiumDocument.state of every document
    docVersion,        \* the content version of every document
    docDiagnostics,    \* LangiumDocument.diagnostics of every document
    pc,                \* where each getDocumentDiagnostics call stands
    callDoc,           \* the document argument of a suspended call
    response,          \* what the latest completed call returned or threw
    returnLine,        \* the source line at which it returned or threw
    minted,            \* history: the result ids minted, in order
    returnedIds        \* history: ids returned per document since its last notification

providerVars == <<nextId, existingReports, docState, docVersion, docDiagnostics, pc, callDoc, response, returnLine, minted, returnedIds>>

(***************************************************************************)
(* State of the validation registry and of the latest validation run.      *)
(***************************************************************************)
VARIABLES
    validationChecks,  \* ValidationRegistry.validationChecks (a Map)
    registrations,     \* history: the (type, check) pairs registered, in order
    lastRun            \* the latest run of the checks over the nodes of a document

registryVars == <<validationChecks, registrations, lastRun>>

(***************************************************************************)
(* State of the parser, of the CST node builder it drives, and of the      *)
(* References it built.                                                    *)
(***************************************************************************)
VARIABLES
    phase,             \* "idle", "recording" (ChevrotainWrapper.IS_RECORDING) or "parsing"
    analysed,          \* ChevrotainWrapper.analysed
    input,             \* the argument of parse and the tokens of wrapper.input not yet consumed
    stack,             \* LangiumParser.stack
    objects,           \* the objects created by the parser, by identity
    references,        \* the References built by buildReference, by identity
    nodeStack,         \* the composite nodes the CST node builder has open
    calls,             \* the rule invocations in progress, innermost last
    parseResult        \* what the latest completed parse returned or threw

parserVars == <<phase, analysed, input, stack, objects, references, nodeStack, calls, parseResult>>

(***************************************************************************)
(* State of the document builders and of the documents they build.         *)
(***************************************************************************)
VARIABLES
    building,          \* the build call in progress: builder, document, next statement
    documents,         \* parseResult and precomputedScopes of every document
    stageLog,          \* history: the build calls and the stages they passed, in order
    sentDiagnostics,   \* history: the messages handed to connection.sendDiagnostics
    buildCount,        \* history: the build calls made so far
    buildOutcome       \* how the latest completed build call ended

builderVars == <<building, documents, stageLog, sentDiagnostics, buildCount, buildOutcome>>

vars == <<providerVars, registryVars, parserVars, builderVars>>

ProviderInit ==
    /\ nextId = 0
    /\ existingReports = <<>>
    /\ docState = [d \in Docs |-> "Changed"]
    /\ docVersion = [d \in Docs |-> 0]
    /\ docDiagnostics = [d \in Docs |-> UndefinedDiagnostics]
    /\ pc = [p \in Calls |-> "idle"]
    /\ callDoc = [p \in Calls |-> NoDoc]
    /\ response = NoResult
    /\ returnLine = 0
    /\ minted = <<>>
    /\ returnedIds = [d \in Docs |-> {}]

(***************************************************************************)
(* Map operations (key equality is object identity).                       *)
(***************************************************************************)
MapHas(m, k) == k \in DOMAIN m

MapSet(m, k, v) == [x \in DOMAIN m \cup {k} |-> IF x = k THEN v ELSE m[x]]

MapDelete(m, k) == [x \in DOMAIN m \ {k} |-> m[x]]

(***************************************************************************)
(* DefaultPullDiagnosticProvider                                           *)
(***************************************************************************)
\* a slip: the cached report is returned whatever the previous id
CachedResponse_AlwaysFull(report, prev) == report

\* a slip: any previous id the client presents counts as up to date
CachedResponse_AnyPrevious(report, prev) ==
    IF prev.present
    THEN [kind |-> "unchanged", resultId |-> prev.str]
    ELSE report

\* Case 1: the response when a report is cached
CachedResponse(report, prev) ==
    IF prev.present /\ prev.str # <<>> /\ prev.str = report.resultId
    THEN [kind |-> "unchanged", resultId |-> prev.str]
    ELSE report

\* const resultId = `${this.nextId}`
MintResultId(n) == NumberToString(n)

\* a slip: the counter is not advanced
IncrementNextId_Forgotten(n) == n

\* this.nextId++
IncrementNextId(n) == n + 1

\* reportForDocument = { kind: 'full', items: document.diagnostics!, resultId }
NewReport(items, resultId) == [kind |-> "full", items |-> items, resultId |-> resultId]

\* a slip: the new report is not stored
StoreReport_Dropped(reports, uri, report) == reports

\* this.existingReports.set(document.uri, reportForDocument)
StoreReport(reports, uri, report) == MapSet(reports, uri, report)

\* an invalidate that empties the cache
Invalidate_ClearsAll(reports, invalidated) ==
    IF invalidated = <<>> THEN reports ELSE <<>>

\* invalidate(invalidated): delete every listed URI
RECURSIVE Invalidate(_, _)
Invalidate(reports, invalidated) ==
    IF invalidated = <<>> THEN reports
    ELSE Invalidate(MapDelete(reports, Head(invalidated)), Tail(invalidated))

\* getDocumentDiagnostics up to its first return or its await
GetDocumentDiagnostics(p, d, prev) ==
    /\ pc[p] = "idle"
    /\ UNCHANGED <<registryVars, parserVars, builderVars>>
    /\ IF MapHas(existingReports, DocUri(d))
       THEN /\ response' = CachedResponse(existingReports[DocUri(d)], prev)
            /\ returnLine' = IF response'.kind = "unchanged" THEN 54 ELSE 58
            /\ returnedIds' = [returnedIds EXCEPT ![d] = @ \cup {response'.resultId}]
            /\ UNCHANGED <<pc, callDoc>>
       ELSE /\ pc' = [pc EXCEPT ![p] = "await63"]
            /\ callDoc' = [callDoc EXCEPT ![p] = d]
            /\ UNCHANGED <<response, returnLine, returnedIds>>
    /\ UNCHANGED <<nextId, existingReports, docState, docVersion, docDiagnostics, minted>>

\* the rest of getDocumentDiagnostics, once waitUntil(Validated, uri) has completed
ResumeAfterWait(p) ==
    /\ pc[p] = "await63"
    /\ UNCHANGED <<registryVars, parserVars, builderVars>>
    /\ docState[callDoc[p]] = "Validated"
    /\ nextId < MaxId
    /\ LET d == callDoc[p]
           resultId == MintResultId(nextId)
           report == NewReport(docDiagnostics[d], resultId)
       IN /\ nextId' = IncrementNextId(nextId)
          /\ existingReports' = StoreReport(existingReports, DocUri(d), report)
          /\ response' = report
          /\ returnLine' = 68
          /\ minted' = Append(minted, resultId)
          /\ returnedIds' = [returnedIds EXCEPT ![d] = @ \cup {resultId}]
    /\ pc' = [pc EXCEPT ![p] = "idle"]
    /\ callDoc' = [callDoc EXCEPT ![p] = NoDoc]
    /\ UNCHANGED <<docState, docVersion, docDiagnostics>>

\* a slip: the id is minted before the await, so a cancelled call consumes one
CancelWait_AfterMint(p) ==
    /\ pc[p] = "await63"
    /\ UNCHANGED <<registryVars, parserVars, builderVars>>
    /\ pc' = [pc EXCEPT ![p] = "idle"]
    /\ callDoc' = [callDoc EXCEPT ![p] = NoDoc]
    /\ response' = CancellationFailure
    /\ returnLine' = 63
    /\ nextId' = nextId + 1
    /\ UNCHANGED <<existingReports, docState, docVersion, docDiagnostics, minted, returnedIds>>

\* the cancellation token fires while the call waits: the await throws
CancelWait(p) ==
    /\ pc[p] = "await63"
    /\ UNCHANGED <<registryVars, parserVars, builderVars>>
    /\ pc' = [pc EXCEPT ![p] = "idle"]
    /\ callDoc' = [callDoc EXCEPT ![p] = NoDoc]
    /\ response' = CancellationFailure
    /\ returnLine' = 63
    /\ UNCHANGED <<nextId, existingReports, docState, docVersion, docDiagnostics, minted, returnedIds>>

(***************************************************************************)
(* The document builder, as far as the provider uses it.                   *)
(***************************************************************************)
\* the URI lists an update notification may carry
UpdateLists ==
    {<<>>} \cup {<<u>> : u \in UriObjects}
           \cup {<<u, w>> : u \in {x \in UriObjects : x.str = "file:///d1"},
                            w \in {x \in UriObjects : x.str = "file:///d2"}}

Range(s) == {s[i] : i \in DOMAIN s}

\* a build brings a changed document to Validated and stores its diagnostics
Build(d) ==
    /\ docState[d] = "Changed"
    /\ UNCHANGED <<registryVars, parserVars, builderVars>>
    /\ docState' = [docState EXCEPT ![d] = "Validated"]
    /\ docDiagnostics' = [docDiagnostics EXCEPT ![d] = Diagnostics(d, docVersion[d])]
    /\ UNCHANGED <<nextId, existingReports, docVersion, pc, callDoc,
                   response, returnLine, minted, returnedIds>>

\* update(changed, deleted): the listed documents are reset and the onUpdate
\* listener of the provider runs with both lists
Update(changed, deleted) ==
    /\ changed \o deleted # <<>>
    /\ UNCHANGED <<registryVars, parserVars, builderVars>>
    /\ Len(changed \o deleted) <= 2
    /\ \A u \in Range(changed \o deleted) : docVersion[DocOf(u.str)] < MaxVersion
    /\ LET listed == {u.str : u \in Range(changed \o deleted)}
           hit == {DocOf(s) : s \in listed}
       IN /\ docState' = [d \in Docs |-> IF d \in hit THEN "Changed" ELSE docState[d]]
          /\ docVersion' = [d \in Docs |-> IF d \in hit THEN docVersion[d] + 1
                                           ELSE docVersion[d]]
          /\ docDiagnostics' = [d \in Docs |-> IF d \in hit THEN UndefinedDiagnostics
                                               ELSE docDiagnostics[d]]
          /\ returnedIds' = [d \in Docs |-> IF d \in hit THEN {} ELSE returnedIds[d]]
    /\ existingReports' = Invalidate(existingReports, changed \o deleted)
    /\ UNCHANGED <<nextId, pc, callDoc, response, returnLine, minted>>

ProviderNext ==
    \/ \E p \in Calls, d \in Docs, prev \in PreviousResultIds :
           GetDocumentDiagnostics(p, d, prev)
    \/ \E p \in Calls : ResumeAfterWait(p)
    \/ \E p \in Calls : CancelWait(p)
    \/ \E d \in Docs : Build(d)
    \/ \E changed \in UpdateLists, deleted \in UpdateLists : Update(changed, deleted)

(***************************************************************************)
(* ValidationRegistry                                                      *)
(***************************************************************************)
\* a registry holds at most this many registered (type, check) pairs
MaxRegistrations == 3

\* AstReflection.getAllTypes(): the types of the language, in its order
AllTypes == <<"A", "B", "C", "D">>

TypeNames == Range(AllTypes)

\* the declared supertypes of each type: B extends A, C extends B
SuperTypes(t) ==
    IF t = "B" THEN {"A"} ELSE IF t = "C" THEN {"B"} ELSE {}

\* AstReflection.isSubtype(subtype, supertype): reflexive and transitive
RECURSIVE IsSubtype(_, _)
IsSubtype(subtype, supertype) ==
    \/ subtype = supertype
    \/ \E t \in SuperTypes(subtype) : IsSubtype(t, supertype)

\* the checks a language registers: what each does when it is called
Checks == {"kReport", "kReportThenThrow"}

Accepts(check) == 1

Throws(check) == check = "kReportThenThrow"

\* the objects register may be given as thisObj
Registry == "registry"

ThisObjects == {Registry, "validator"}

\* the values of a checksRecord entry: a check, an array of checks, undefined
Single(k) == [tag |-> "check", checks |-> <<k>>]

Array(ks) == [tag |-> "array", checks |-> ks]

Undefined == [tag |-> "undefined", checks |-> <<>>]

\* the checksRecord arguments: Object.entries order, keys are type names
\* (X is a name the type hierarchy does not know)
CheckRecords ==
    { <<>>,
      << <<"A", Single("kReport")>> >>,
      << <<"B", Array(<<"kReportThenThrow", "kReport">>)>> >>,
      << <<"C", Single("kReportThenThrow")>>, <<"D", Single("kReport")>> >>,
      << <<"D", Single("kReportThenThrow")>>, <<"A", Undefined>> >>,
      << <<"B", Array(<<>>)>>, <<"C", Single("kReport")>> >>,
      << <<"X", Single("kReport")>> >> }

NoRun == [nodes |-> <<>>, diagnostics |-> <<>>, threw |-> FALSE]

RegistryInit ==
    /\ validationChecks = <<>>
    /\ registrations = <<>>
    /\ lastRun = NoRun

\* a call of the user's check: it accepts its diagnostics and returns or throws
InvokeCheck(check, receiver, node) ==
    [accepted |-> [i \in 1..Accepts(check) |->
                      [node |-> node, check |-> check, receiver |-> receiver]],
     threw |-> Throws(check)]

\* wrapValidationException(check).bind(thisObj): an arrow function, whose this
\* is the registry whatever it is bound to
WrapValidationException(check, thisObj) ==
    [check |-> check, lexicalThis |-> Registry, boundThis |-> thisObj]

\* a slip: the wrapper calls the check outside any try/catch
InvokeWrapped_NoCatch(wrapped, node) ==
    InvokeCheck(wrapped.check, wrapped.lexicalThis, node)

\* a call of the wrapped check: try { check.call(this, node, accept) } catch
InvokeWrapped(wrapped, node) ==
    [accepted |-> InvokeCheck(wrapped.check, wrapped.lexicalThis, node).accepted,
     threw |-> FALSE]

\* a slip: the check is stored for the registered type alone
DoRegister_ExactTypeOnly(checks, type, check) ==
    IF type \in TypeNames
    THEN MapSet(checks, type,
                Append(IF MapHas(checks, type) THEN checks[type] ELSE <<>>, check))
    ELSE checks

\* doRegister: the loop over getAllTypes() from its i-th type on
RECURSIVE DoRegisterFrom(_, _, _, _)
DoRegisterFrom(checks, type, check, i) ==
    IF i > Len(AllTypes) THEN checks
    ELSE LET subtype == AllTypes[i]
             checkArray == IF MapHas(checks, subtype) THEN checks[subtype] ELSE <<>>
         IN IF IsSubtype(subtype, type)
            THEN DoRegisterFrom(MapSet(checks, subtype, Append(checkArray, check)),
                                type, check, i + 1)
            ELSE DoRegisterFrom(checks, type, check, i + 1)

\* doRegister(type, check)
DoRegister(checks, type, check) == DoRegisterFrom(checks, type, check, 1)

\* register: the inner loop over the checks of one entry
RECURSIVE RegisterChecks(_, _, _, _)
RegisterChecks(checks, type, ks, thisObj) ==
    IF ks = <<>> THEN checks
    ELSE RegisterChecks(DoRegister(checks, type, WrapValidationException(Head(ks), thisObj)),
                        type, Tail(ks), thisObj)

\* register: the loop over Object.entries(checksRecord)
RECURSIVE RegisterEntries(_, _, _)
RegisterEntries(checks, entries, thisObj) ==
    IF entries = <<>> THEN checks
    ELSE LET type == Head(entries)[1]
             ch == Head(entries)[2]
         IN RegisterEntries(
                IF ch.tag = "array" THEN RegisterChecks(checks, type, ch.checks, thisObj)
                ELSE IF ch.tag = "check" THEN RegisterChecks(checks, type, ch.checks, thisObj)
                ELSE checks,
                Tail(entries), thisObj)

\* the (type, check) pairs a checksRecord registers, in order
RECURSIVE Registered(_)
Registered(entries) ==
    IF entries = <<>> THEN <<>>
    ELSE [i \in 1..Len(Head(entries)[2].checks) |->
             [type |-> Head(entries)[1], check |-> Head(entries)[2].checks[i]]]
         \o Registered(Tail(entries))

\* getChecks(type)
GetChecks(type) == IF MapHas(validationChecks, type) THEN validationChecks[type] ELSE <<>>

\* register(checksRecord, thisObj)
Register(checksRecord, thisObj) ==
    /\ Len(registrations) + Len(Registered(checksRecord)) <= MaxRegistrations
    /\ validationChecks' = RegisterEntries(validationChecks, checksRecord, thisObj)
    /\ registrations' = registrations \o Registered(checksRecord)
    /\ UNCHANGED lastRun
    /\ UNCHANGED <<providerVars, parserVars, builderVars>>

(***************************************************************************)
(* The validation runner: every node of the document, every check that     *)
(* getChecks returns for the node's type.  A check that throws ends the run.*)
(***************************************************************************)
RECURSIVE RunChecks(_, _, _)
RunChecks(wrappers, node, run) ==
    IF wrappers = <<>> \/ run.threw THEN run
    ELSE LET r == InvokeWrapped(Head(wrappers), node)
         IN RunChecks(Tail(wrappers), node,
                      [run EXCEPT !.diagnostics = @ \o r.accepted, !.threw = r.threw])

RECURSIVE RunNodes(_, _)
RunNodes(run, i) ==
    IF i > Len(run.nodes) \/ run.threw THEN run
    ELSE RunNodes(RunChecks(GetChecks(run.nodes[i]), [index |-> i, type |-> run.nodes[i]], run),
                  i + 1)

\* the documents that are validated: the types of their nodes, in tree order
NodeLists ==
    { <<"A">>, <<"C">>, <<"D", "C">>, <<"D", "A">>, <<"B", "B">>, <<"C", "D", "A">> }

ValidateDocument(nodes) ==
    /\ lastRun' = RunNodes([nodes |-> nodes, diagnostics |-> <<>>, threw |-> FALSE], 1)
    /\ UNCHANGED <<validationChecks, registrations>>
    /\ UNCHANGED <<providerVars, parserVars, builderVars>>

RegistryNext ==
    \/ \E checksRecord \in CheckRecords, thisObj \in ThisObjects :
           Register(checksRecord, thisObj)
    \/ \E nodes \in NodeLists : ValidateDocument(nodes)

(***************************************************************************)
(* The parser (LangiumParser in src/unnamed/part_000).                     *)
(*                                                                         *)
(* JavaScript values are records of one shape, told apart by kind.  An     *)
(* object is a function from its own property names to values, and is      *)
(* referred to by its index in objects; a Reference by its index in        *)
(* references.  A name or a text is a sequence of pieces, so that the      *)
(* string operations of the code ('^' removal, startsWith('$'), template   *)
(* literals, parseFloat) are computed rather than looked up.               *)
(***************************************************************************)
\* a rule or an action creates its object only while fewer than this many
\* objects exist
MaxObjects == 3

\* a document has this many tokens
MaxTokens == 1

\* the linker is called at most this many times per Reference
MaxLinkCalls == 2

Front(s) == SubSeq(s, 1, Len(s) - 1)

Value(kind, id, text, items) == [kind |-> kind, id |-> id, text |-> text, items |-> items]

Undef == Value("undefined", 0, <<>>, <<>>)

NaN == Value("number", -1, <<"NaN">>, <<>>)

True == Value("boolean", 1, <<>>, <<>>)

Str(text) == Value("string", 0, text, <<>>)

Num(n) == Value("number", n, <<>>, <<>>)

Node(id) == Value("object", id, <<>>, <<>>)

Ref(id) == Value("reference", id, <<>>, <<>>)

Arr(items) == Value("array", 0, <<>>, items)

CstNode(text) == Value("cstNode", 0, text, <<>>)

Document == Value("document", 0, <<>>, <<>>)

\* !value
Falsy(value) ==
    \/ value = Undef
    \/ value = NaN
    \/ value = Str(<<>>)
    \/ value = Num(0)

\* typeof value === 'object', for a value that is not an array
IsObject(value) == value.kind \in {"object", "reference", "cstNode", "document"}

TypeKey == <<"$", "type">>

ContainerKey == <<"$", "container">>

CstNodeKey == <<"$", "cstNode">>

DocumentKey == <<"$", "document">>

GetProp(object, name) == IF name \in DOMAIN object THEN object[name] ELSE Undef

SetProp(object, name, value) ==
    [n \in DOMAIN object \cup {name} |-> IF n = name THEN value ELSE object[n]]

\* { $type }
NewObject(type) == [n \in {TypeKey} |-> type]

\* the token images the lexer produces
TokenImages == {"0", "7", "x"}

Digits == {"0", "7"}

DigitValue(c) == IF c = "7" THEN 7 ELSE 0

RECURSIVE LeadingDigits(_)
LeadingDigits(text) ==
    IF text = <<>> \/ text[1] \notin Digits
    THEN <<>>
    ELSE <<text[1]>> \o LeadingDigits(Tail(text))

RECURSIVE DigitsValue(_)
DigitsValue(digits) ==
    IF digits = <<>>
    THEN 0
    ELSE DigitsValue(Front(digits)) * 10 + DigitValue(digits[Len(digits)])

\* parseFloat(text)
ParseFloat(text) ==
    IF LeadingDigits(text) = <<>> THEN NaN ELSE Num(DigitsValue(LeadingDigits(text)))

StringType == Str(<<"String">>)

NumberType == Str(<<"Number">>)

\* String.is(item)
StringIs(object) == GetProp(object, TypeKey) = StringType

\* Number.is(item)
NumberIs(object) == GetProp(object, TypeKey) = NumberType

\* name.startsWith('$')
StartsWithDollar(name) == name # <<>> /\ name[1] = "$"

\* assignment.feature.replace(/\^/g, '')
StripCaret(feature) == SelectSeq(feature, LAMBDA c : c # "^")

\* `${type}` of a $type, which is a string or undefined
TemplateText(type) == IF type = Undef THEN <<"undefined">> ELSE type.text

\* `${this.current.object.$type}:${assignment.feature}`
CrossRefId(type, feature) == TemplateText(type) \o <<":">> \o feature

NoCrossRefId == <<>>

Operators == {"=", "?=", "+="}

NoAssignment == [operator |-> "", feature |-> <<>>, crossRef |-> FALSE]

\* the assignments and actions of the grammar: operator, feature, and whether
\* the terminal of the assignment is a cross-reference
Assignments ==
    {[operator |-> "=", feature |-> <<"a">>, crossRef |-> FALSE],
     [operator |-> "+=", feature |-> <<"a">>, crossRef |-> FALSE],
     [operator |-> "?=", feature |-> <<"^", "b">>, crossRef |-> FALSE],
     [operator |-> "=", feature |-> <<"a">>, crossRef |-> TRUE],
     [operator |-> "+=", feature |-> <<"a">>, crossRef |-> TRUE]}

ActionType == Str(<<"U">>)

Actions == {NoAssignment} \cup {a \in Assignments : ~a.crossRef}

\* the rules of the grammar: the type handed to DEFINE_RULE and the element of
\* the grammar access that the body hands to initializeElement
Rule(type, element) == [type |-> type, element |-> element]

ArrayElement == {[operator |-> "+=", feature |-> <<"a">>, crossRef |-> FALSE]}

MainRules == {Rule(Str(<<"T">>), ArrayElement)}

Rules ==
    MainRules \cup {Rule(Undef, {}), Rule(StringType, {}), Rule(NumberType, {})}

\* how a rule body ends: it returns this.construct(), it returns nothing, or
\* it throws
Endings == {"construct", "return", "throw"}

NoParse == [kind |-> "none", value |-> Undef]

NoInput == [tokens |-> 0, document |-> FALSE]

\* the arguments of parse: documents of MaxTokens tokens
Inputs == [tokens : {MaxTokens}, document : {TRUE}]

ParserInit ==
    /\ phase = "idle"
    /\ analysed = FALSE
    /\ input = NoInput
    /\ stack = <<>>
    /\ objects = <<>>
    /\ references = <<>>
    /\ nodeStack = <<>>
    /\ calls = <<>>
    /\ parseResult = NoParse

\* the parser and builder state an operation works on, with what the
\* operation returned and whether it threw
Machine ==
    [stack |-> stack, objects |-> objects, references |-> references,
     nodeStack |-> nodeStack, calls |-> calls, phase |-> phase,
     parseResult |-> parseResult, document |-> input.document,
     result |-> Undef, threw |-> FALSE]

Throw(m) == [m EXCEPT !.threw = TRUE, !.result = Undef]

Return(m, value) == [m EXCEPT !.threw = FALSE, !.result = value]

\* this.current
Current(m) == m.stack[Len(m.stack)]

(***************************************************************************)
(* The CST node builder and the linker are not part of the sources; they   *)
(* are modelled from the specification.  A composite node is the text of   *)
(* the leaves below it.                                                    *)
(***************************************************************************)
\* nodeBuilder.buildRootNode(text)
BuildRootNode(m) == [m EXCEPT !.nodeStack = <<<<>>>>]

\* nodeBuilder.buildCompositeNode(feature)
BuildCompositeNode(m) ==
    IF m.nodeStack = <<>> THEN Throw(m) ELSE [m EXCEPT !.nodeStack = Append(@, <<>>)]

\* nodeBuilder.buildLeafNode(token, feature)
BuildLeafNode(m, image) ==
    IF m.nodeStack = <<>>
    THEN Throw(m)
    ELSE [m EXCEPT !.nodeStack[Len(m.nodeStack)] = Append(@, image)]

\* nodeBuilder.construct(obj): the open node becomes obj.$cstNode and is closed
NodeBuilderConstruct(m, obj) ==
    IF m.nodeStack = <<>>
    THEN [m EXCEPT !.objects[obj] = SetProp(@, CstNodeKey, Undef)]
    ELSE LET depth == Len(m.nodeStack)
             text == m.nodeStack[depth]
             closed == IF depth = 1
                       THEN <<>>
                       ELSE [Front(m.nodeStack) EXCEPT ![depth - 1] = @ \o text]
         IN [m EXCEPT !.objects[obj] = SetProp(@, CstNodeKey, CstNode(text)),
                      !.nodeStack = closed]

\* the outcomes of linker.link(node, text, crossRefId): a node or undefined
LinkTargets == {Undef} \cup {Node(i) : i \in 1..Len(objects)}

NotRead == Value("notRead", 0, <<>>, <<>>)

(***************************************************************************)
(* The operations of LangiumParser, on the state m.                        *)
(***************************************************************************)
\* buildReference: the Reference with its closure (node, text, crossRefId)
\* and its _ref; linked, first and last are history: the calls of the linker
\* and what the first and the latest read of ref returned
BuildReference(m, node, text, crossRefId) ==
    [m EXCEPT !.references =
        Append(@, [refName |-> text, node |-> node, crossRefId |-> crossRefId,
                   ref |-> Undef, container |-> Undef,
                   linked |-> 0, first |-> NotRead, last |-> NotRead])]

\* a switch whose '+=' case stores the item alone
AssignedValue_AppendReplaces(operator, old, item) ==
    CASE operator = "=" -> item
      [] operator = "?=" -> True
      [] operator = "+=" -> Arr(<<item>>)
      [] OTHER -> old

\* a switch whose '=' case keeps a value that is already there
AssignedValue_OverwriteKeepsFirst(operator, old, item) ==
    CASE operator = "=" -> IF old = Undef THEN item ELSE old
      [] operator = "?=" -> True
      [] operator = "+=" -> Arr((IF old.kind = "array" THEN old.items ELSE <<>>) \o <<item>>)
      [] OTHER -> old

\* the switch of assign: what obj[feature] holds afterwards
AssignedValue(operator, old, item) ==
    CASE operator = "=" -> item
      [] operator = "?=" -> True
      [] operator = "+=" -> Arr((IF old.kind = "array" THEN old.items ELSE <<>>) \o <<item>>)
      [] OTHER -> old

\* assign(assignment, value, crossRefId)
Assign(m, assignment, value, crossRefId) ==
    IF m.stack = <<>>
    THEN Throw(m)
    ELSE LET obj == Current(m).object
             feature == StripCaret(assignment.feature)
             isRef == crossRefId # NoCrossRefId /\ value.kind = "string"
             built == IF isRef THEN BuildReference(m, obj, value.text, crossRefId) ELSE m
             item == IF isRef THEN Ref(Len(built.references)) ELSE value
             old == GetProp(m.objects[obj], feature)
         IN IF assignment.operator \in Operators
            THEN [built EXCEPT !.objects[obj] =
                     SetProp(@, feature, AssignedValue(assignment.operator, old, item))]
            ELSE built

\* the values of the non-$ properties of an object and, for an array, its items
HeldValues(object) ==
    LET values == {object[n] : n \in {k \in DOMAIN object : ~StartsWithDollar(k)}}
    IN {v \in values : v.kind # "array"}
       \cup UNION {Range(v.items) : v \in {w \in values : w.kind = "array"}}

\* item.$container = obj, for the objects among children
RECURSIVE ContainObjects(_, _, _)
ContainObjects(objs, children, container) ==
    IF objs = <<>>
    THEN <<>>
    ELSE Append(ContainObjects(Front(objs), children, container),
                IF Node(Len(objs)) \in children
                THEN SetProp(objs[Len(objs)], ContainerKey, container)
                ELSE objs[Len(objs)])

\* item.$container = obj, for the References among children
RECURSIVE ContainReferences(_, _, _)
ContainReferences(refs, children, container) ==
    IF refs = <<>>
    THEN <<>>
    ELSE Append(ContainReferences(Front(refs), children, container),
                IF Ref(Len(refs)) \in children
                THEN [refs[Len(refs)] EXCEPT !.container = container]
                ELSE refs[Len(refs)])

\* construct()
Construct(m, isRecording) ==
    IF isRecording
    THEN Return(m, Undef)
    ELSE IF m.stack = <<>>
    THEN Throw(m)
    ELSE LET obj == Current(m).object
             children == {v \in HeldValues(m.objects[obj]) : IsObject(v)}
             contained ==
                 [m EXCEPT !.objects = ContainObjects(@, children, Node(obj)),
                           !.references = ContainReferences(@, children, Node(obj))]
             built == NodeBuilderConstruct(contained, obj)
             popped == [built EXCEPT !.stack = Front(@)]
             node == GetProp(popped.objects[obj], CstNodeKey)
         IN IF StringIs(popped.objects[obj])
            THEN IF node = Undef THEN Throw(popped) ELSE Return(popped, Str(node.text))
            ELSE IF NumberIs(popped.objects[obj])
            THEN IF node = Undef THEN Throw(popped) ELSE Return(popped, ParseFloat(node.text))
            ELSE Return(popped, Node(obj))

\* a closure that pushes its frame in the recording phase too
StartImplementationEntry_AlwaysPushes(m, isRecording, type) ==
    [m EXCEPT !.objects = Append(@, NewObject(type)),
              !.stack = Append(@, [object |-> Len(m.objects) + 1,
                                   executedAction |-> FALSE])]

\* the closure of startImplementation up to the call of the rule body
StartImplementationEntry(m, isRecording, type) ==
    IF ~isRecording
    THEN [m EXCEPT !.objects = Append(@, NewObject(type)),
                   !.stack = Append(@, [object |-> Len(m.objects) + 1,
                                        executedAction |-> FALSE])]
    ELSE m

\* the closure of startImplementation from the end of the rule body: the body
\* returned this.construct(), returned nothing, or threw
StartImplementationExit(m, isRecording, ending) ==
    LET body == IF ending = "construct"
                THEN Construct(m, isRecording)
                ELSE IF ending = "throw" THEN Throw(m) ELSE Return(m, Undef)
        caught == IF body.threw THEN Return(body, Undef) ELSE body
    IN IF ~isRecording /\ Falsy(caught.result)
       THEN Construct(caught, isRecording)
       ELSE caught

\* consume, after wrapConsume returned the token
ConsumeOp(m, isRecording, image, assignment) ==
    IF isRecording
    THEN m
    ELSE LET leaf == BuildLeafNode(m, image)
         IN IF leaf.threw \/ assignment = NoAssignment
            THEN leaf
            ELSE IF assignment.crossRef
            THEN IF leaf.stack = <<>>
                 THEN Throw(leaf)
                 ELSE Assign(leaf, assignment, Str(<<image>>),
                             CrossRefId(GetProp(leaf.objects[Current(leaf).object], TypeKey),
                                        assignment.feature))
            ELSE Assign(leaf, assignment, Str(<<image>>), NoCrossRefId)

\* subrule, up to the call of the rule by wrapSubrule
SubruleEntry(m, isRecording) ==
    IF isRecording THEN m ELSE BuildCompositeNode(m)

\* subrule, after wrapSubrule returned m.result
SubruleExit(m, isRecording, assignment) ==
    IF ~isRecording /\ assignment # NoAssignment
    THEN [Assign(m, assignment, m.result, NoCrossRefId) EXCEPT !.result = m.result]
    ELSE m

\* Object.assign(result, this.current.object): a primitive result is wrapped
\* in a new object
ObjectAssign(m, result) ==
    LET source == m.objects[Current(m).object]
        wrapped == result.kind # "object"
        id == IF wrapped THEN Len(m.objects) + 1 ELSE result.id
        target == IF wrapped THEN << >> ELSE m.objects[id]
        merged == [n \in DOMAIN target \cup DOMAIN source |->
                      IF n \in DOMAIN source THEN source[n] ELSE target[n]]
    IN [m EXCEPT !.objects = IF wrapped THEN Append(@, merged) ELSE [@ EXCEPT ![id] = merged],
                 !.result = Node(id)]

\* unassignedSubrule, after subrule returned m.result
UnassignedSubruleExit(m, isRecording) ==
    IF isRecording
    THEN m
    ELSE IF m.stack = <<>>
    THEN Throw(m)
    ELSE LET resultKind == IF m.result.kind = "object"
                           THEN GetProp(m.objects[m.result.id], TypeKey)
                           ELSE Undef
             assigned == ObjectAssign(m, m.result)
             object == assigned.result.id
             typed == IF ~Falsy(resultKind)
                      THEN [assigned EXCEPT !.objects[object] = SetProp(@, TypeKey, resultKind)]
                      ELSE assigned
         IN [typed EXCEPT !.stack = Append(Front(@), [Current(m) EXCEPT !.object = object]),
                          !.result = Undef]

\* an action that does not look at executedAction
ActionOp_Repeats(m, isRecording, type, action) ==
    IF isRecording
    THEN m
    ELSE IF m.stack = <<>>
    THEN Throw(m)
    ELSE LET last == Current(m)
             replaced == [m EXCEPT
                 !.objects = Append(@, NewObject(type)),
                 !.stack = Append(Front(@), [object |-> Len(m.objects) + 1,
                                             executedAction |-> TRUE])]
         IN IF action.feature # <<>> /\ action.operator # ""
            THEN Assign(replaced, action, Node(last.object), NoCrossRefId)
            ELSE replaced

\* action($type, action)
ActionOp(m, isRecording, type, action) ==
    IF isRecording
    THEN m
    ELSE IF m.stack = <<>>
    THEN Throw(m)
    ELSE IF Current(m).executedAction
    THEN m
    ELSE LET last == Current(m)
             replaced == [m EXCEPT
                 !.objects = Append(@, NewObject(type)),
                 !.stack = Append(Front(@), [object |-> Len(m.objects) + 1,
                                             executedAction |-> TRUE])]
         IN IF action.feature # <<>> /\ action.operator # ""
            THEN Assign(replaced, action, Node(last.object), NoCrossRefId)
            ELSE replaced

\* initializeElement(grammarAccessElement): the loop body is commented out
InitializeElementOp(m, isRecording, element) == m

(***************************************************************************)
(* Rule invocations.  A rule body is code of the grammar's parser: it      *)
(* calls the operations in any order and ends in one of Endings.  calls    *)
(* holds, for every invocation in progress, how it was called: by parse,   *)
(* by the self-analysis, by subrule or by unassignedSubrule.               *)
(***************************************************************************)
Call(how, assignment, rule) == [how |-> how, assignment |-> assignment, rule |-> rule]

\* parse, after the main rule returned m.result
ParseExit(m) ==
    IF m.threw
    THEN m
    ELSE IF m.document /\ m.result.kind # "object"
    THEN Throw(m)
    ELSE LET value == m.result
             stored == IF m.document
                       THEN [m EXCEPT !.objects[value.id] = SetProp(@, DocumentKey, Document)]
                       ELSE m
         IN [stored EXCEPT !.phase = "idle",
                           !.parseResult = [kind |-> "returned", value |-> value]]

\* the caller of the innermost invocation goes on after it returned or threw
Resume(m, isRecording) ==
    LET call == m.calls[Len(m.calls)]
        left == [m EXCEPT !.calls = Front(@)]
    IN CASE call.how = "analysis" -> Return(left, Undef)
         [] call.how = "main" -> ParseExit(left)
         [] call.how = "subrule" ->
                IF left.threw THEN left ELSE SubruleExit(left, isRecording, call.assignment)
         [] OTHER ->
                IF left.threw
                THEN left
                ELSE LET sub == SubruleExit(left, isRecording, call.assignment)
                     IN IF sub.threw THEN sub ELSE UnassignedSubruleExit(sub, isRecording)

\* an exception thrown in a rule body ends the body; one that leaves the main
\* rule leaves parse
RECURSIVE Unwind(_)
Unwind(m) ==
    IF ~m.threw
    THEN m
    ELSE IF m.calls = <<>>
    THEN [m EXCEPT !.threw = FALSE, !.phase = "idle",
                   !.parseResult = [kind |-> "threw", value |-> Undef]]
    ELSE Unwind(Resume(StartImplementationExit(Return(m, Undef), FALSE, "throw"), FALSE))

Apply(m) ==
    /\ stack' = m.stack
    /\ objects' = m.objects
    /\ references' = m.references
    /\ nodeStack' = m.nodeStack
    /\ calls' = m.calls
    /\ phase' = m.phase
    /\ parseResult' = m.parseResult

IsRecording == phase = "recording"

\* the objects of an earlier parse are out of the reach of the parser unless
\* a frame was left on the stack
Reachable ==
    IF stack = <<>>
    THEN [Machine EXCEPT !.objects = <<>>, !.references = <<>>]
    ELSE Machine

\* parse, from buildRootNode to the call of the main rule
StartParse(rule) ==
    LET rooted == BuildRootNode([Reachable EXCEPT !.phase = "parsing", !.parseResult = NoParse,
                                                  !.document = input'.document,
                                                  !.calls = Append(@, Call("main", NoAssignment, rule))])
    IN Apply(StartImplementationEntry(rooted, FALSE, rule.type))

\* parse(input): the first parse starts the self-analysis
Parse(in, rule) ==
    /\ phase = "idle"
    /\ stack # <<>> => Len(objects) < MaxObjects
    /\ UNCHANGED <<providerVars, registryVars, builderVars>>
    /\ input' = in
    /\ IF ~analysed
       THEN /\ phase' = "recording"
            /\ UNCHANGED <<analysed, stack, objects, references, nodeStack, calls, parseResult>>
       ELSE /\ StartParse(rule)
            /\ UNCHANGED analysed

\* performSelfAnalysis runs a rule in the recording phase
AnalyseRule(rule) ==
    /\ phase = "recording"
    /\ calls = <<>>
    /\ UNCHANGED <<providerVars, registryVars, builderVars>>
    /\ Apply(StartImplementationEntry(
                 [Machine EXCEPT !.calls = Append(@, Call("analysis", NoAssignment, rule))],
                 TRUE, rule.type))
    /\ UNCHANGED <<analysed, input>>

\* performSelfAnalysis returns and parse goes on
FinishAnalysis(rule) ==
    /\ phase = "recording"
    /\ calls = <<>>
    /\ UNCHANGED <<providerVars, registryVars, builderVars>>
    /\ analysed' = TRUE
    /\ UNCHANGED input
    /\ StartParse(rule)

\* a rule body calls consume
Consume(image, assignment) ==
    /\ phase # "idle"
    /\ calls # <<>>
    /\ ~IsRecording => input.tokens > 0
    /\ UNCHANGED <<providerVars, registryVars, builderVars>>
    /\ Apply(Unwind(ConsumeOp(Machine, IsRecording, image, assignment)))
    /\ input' = IF IsRecording THEN input ELSE [input EXCEPT !.tokens = @ - 1]
    /\ UNCHANGED analysed

\* a rule body calls subrule
Subrule(rule, assignment) ==
    /\ phase # "idle"
    /\ calls # <<>>
    /\ ~IsRecording => Len(objects) < MaxObjects
    /\ UNCHANGED <<providerVars, registryVars, builderVars>>
    /\ LET entered == SubruleEntry(Machine, IsRecording)
       IN IF IsRecording \/ entered.threw
          THEN Apply(Unwind(entered))
          ELSE Apply(StartImplementationEntry(
                   [entered EXCEPT !.calls = Append(@, Call("subrule", assignment, rule))],
                   FALSE, rule.type))
    /\ UNCHANGED <<analysed, input>>

\* a rule body calls unassignedSubrule
UnassignedSubrule(rule) ==
    /\ phase # "idle"
    /\ calls # <<>>
    /\ ~IsRecording => Len(objects) < MaxObjects
    /\ UNCHANGED <<providerVars, registryVars, builderVars>>
    /\ LET entered == SubruleEntry(Machine, IsRecording)
       IN IF IsRecording \/ entered.threw
          THEN Apply(Unwind(entered))
          ELSE Apply(StartImplementationEntry(
                   [entered EXCEPT !.calls = Append(@, Call("unassignedSubrule", NoAssignment, rule))],
                   FALSE, rule.type))
    /\ UNCHANGED <<analysed, input>>

\* a rule body calls action
Action(type, action) ==
    /\ phase # "idle"
    /\ calls # <<>>
    /\ (~IsRecording /\ stack # <<>> /\ ~Current(Machine).executedAction)
           => Len(objects) < MaxObjects
    /\ UNCHANGED <<providerVars, registryVars, builderVars>>
    /\ Apply(Unwind(ActionOp(Machine, IsRecording, type, action)))
    /\ UNCHANGED <<analysed, input>>

\* a rule body calls initializeElement with the element of its rule
InitializeElement ==
    /\ phase # "idle"
    /\ calls # <<>>
    /\ UNCHANGED <<providerVars, registryVars, builderVars>>
    /\ Apply(Unwind(InitializeElementOp(Machine, IsRecording,
                                        calls[Len(calls)].rule.element)))
    /\ UNCHANGED <<analysed, input>>

\* a rule body ends, and its caller goes on
RuleReturn(ending) ==
    /\ phase # "idle"
    /\ calls # <<>>
    /\ UNCHANGED <<providerVars, registryVars, builderVars>>
    /\ Apply(Unwind(Resume(StartImplementationExit(Machine, IsRecording, ending),
                           IsRecording)))
    /\ UNCHANGED <<analysed, input>>

\* a getter that calls the linker on every read
GetRef_AlwaysLinks(reference, target) ==
    LET linked == [reference EXCEPT !.ref = target, !.linked = @ + 1]
    IN [linked EXCEPT !.first = IF @ = NotRead THEN linked.ref ELSE @,
                      !.last = linked.ref]

\* get ref() of a Reference; target is what the linker returns if it is called
GetRef(reference, target) ==
    LET linked == IF reference.ref = Undef
                  THEN [reference EXCEPT !.ref = target, !.linked = @ + 1]
                  ELSE reference
    IN [linked EXCEPT !.first = IF @ = NotRead THEN linked.ref ELSE @,
                      !.last = linked.ref]

\* some code reads reference.ref
ReadRef(r, target) ==
    /\ phase = "idle"
    /\ r \in DOMAIN references
    /\ references[r].ref = Undef => references[r].linked < MaxLinkCalls
    /\ UNCHANGED <<providerVars, registryVars, builderVars>>
    /\ references' = [references EXCEPT ![r] = GetRef(@, target)]
    /\ UNCHANGED <<phase, analysed, input, stack, objects, nodeStack, calls, parseResult>>

ParserNext ==
    \/ \E in \in Inputs, rule \in MainRules : Parse(in, rule)
    \/ \E rule \in Rules : AnalyseRule(rule)
    \/ \E rule \in MainRules : FinishAnalysis(rule)
    \/ \E image \in TokenImages, assignment \in Assignments \cup {NoAssignment} :
           Consume(image, assignment)
    \/ \E rule \in Rules, assignment \in {a \in Assignments : ~a.crossRef} :
           Subrule(rule, assignment)
    \/ \E rule \in Rules : UnassignedSubrule(rule)
    \/ \E action \in Actions : Action(ActionType, action)
    \/ InitializeElement
    \/ \E ending \in Endings : RuleReturn(ending)
    \/ \E r \in 1..MaxTokens, target \in LinkTargets : ReadRef(r, target)

(***************************************************************************)
(* The document builder (DefaultDocumentBuilder in src/unnamed/part_000).  *)
(* build is synchronous: its statements run one after the other and no     *)
(* other build starts before it has returned or thrown.                    *)
(***************************************************************************)
\* build is called at most this many times
MaxBuilds == 3

\* two builders: one whose services hold a connection, one whose do not
Builders == {"connected", "unconnected"}

\* this.connection is defined
Connection(b) == b = "connected"

\* parser.parse(document) returns a ParseResult, or an exception leaves it
\* (the construct() that follows a rule body is outside the try of the rule)
ParseOutcomes == {"returned", "threw"}

NoBuild == [builder |-> "none", doc |-> NoDoc, at |-> "idle", n |-> 0, value |-> 0]

\* a document before its first build: parseResult and precomputedScopes undefined
NewDocument == [parseResult |-> 0, precomputedScopes |-> 0]

BuilderInit ==
    /\ building = NoBuild
    /\ documents = [d \in Docs |-> NewDocument]
    /\ stageLog = <<>>
    /\ sentDiagnostics = <<>>
    /\ buildCount = 0
    /\ buildOutcome = "none"

\* the running build has passed a stage
Logged(stage) ==
    Append(stageLog, [build |-> building.n, builder |-> building.builder,
                      doc |-> building.doc, stage |-> stage])

\* scopeComputation.computeScope(parseResult.value): the scopes of that tree
ComputeScope(value) == value

\* documentValidator.validateDocument(processed): the diagnostics of the
\* document's current parse result
ValidateDocumentOf(d, document) == Diagnostics(d, document.parseResult)

\* some code calls build(document) of a builder
BuildCall(b, d) ==
    /\ building = NoBuild
    /\ buildCount < MaxBuilds
    /\ buildCount' = buildCount + 1
    /\ building' = [builder |-> b, doc |-> d, at |-> "parse", n |-> buildCount + 1, value |-> 0]
    /\ stageLog' = Append(stageLog, [build |-> buildCount + 1, builder |-> b,
                                     doc |-> d, stage |-> "build"])
    /\ UNCHANGED <<documents, sentDiagnostics, buildOutcome>>
    /\ UNCHANGED <<providerVars, registryVars, parserVars>>

\* const parseResult = this.parser.parse(document)
BuildParse(outcome) ==
    /\ building.at = "parse"
    /\ IF outcome = "threw"
       THEN /\ building' = NoBuild
            /\ buildOutcome' = "threw"
            /\ UNCHANGED stageLog
       ELSE /\ building' = [building EXCEPT !.at = "store", !.value = building.n]
            /\ stageLog' = Logged("parse")
            /\ UNCHANGED buildOutcome
    /\ UNCHANGED <<documents, sentDiagnostics, buildCount>>
    /\ UNCHANGED <<providerVars, registryVars, parserVars>>

\* document.parseResult = parseResult
BuildStore ==
    /\ building.at = "store"
    /\ documents' = [documents EXCEPT ![building.doc].parseResult = building.value]
    /\ stageLog' = Logged("store")
    /\ building' = [building EXCEPT !.at = "computeScope"]
    /\ UNCHANGED <<sentDiagnostics, buildCount, buildOutcome>>
    /\ UNCHANGED <<providerVars, registryVars, parserVars>>

\* document.precomputedScopes = this.scopeComputation.computeScope(parseResult.value)
BuildComputeScope ==
    /\ building.at = "computeScope"
    /\ documents' = [documents EXCEPT
                        ![building.doc].precomputedScopes = ComputeScope(building.value)]
    /\ stageLog' = Logged("computeScope")
    /\ building' = [building EXCEPT !.at = "validateDocument"]
    /\ UNCHANGED <<sentDiagnostics, buildCount, buildOutcome>>
    /\ UNCHANGED <<providerVars, registryVars, parserVars>>

\* const diagnostics = this.documentValidator.validateDocument(processed)
BuildValidate ==
    /\ building.at = "validateDocument"
    /\ stageLog' = Logged("validateDocument")
    /\ building' = [building EXCEPT !.at = "sendDiagnostics"]
    /\ UNCHANGED <<documents, sentDiagnostics, buildCount, buildOutcome>>
    /\ UNCHANGED <<providerVars, registryVars, parserVars>>

\* if (this.connection) this.connection.sendDiagnostics({ uri, diagnostics })
SendDiagnostics(b, sent, message) ==
    IF Connection(b) THEN Append(sent, message) ELSE sent

\* the end of build: the diagnostics are sent and processed is returned
BuildSend ==
    /\ building.at = "sendDiagnostics"
    /\ sentDiagnostics' =
           SendDiagnostics(building.builder, sentDiagnostics,
                           [build |-> building.n, uri |-> DocUri(building.doc),
                            diagnostics |-> ValidateDocumentOf(building.doc,
                                                               documents[building.doc])])
    /\ building' = NoBuild
    /\ buildOutcome' = "returned"
    /\ UNCHANGED <<documents, stageLog, buildCount>>
    /\ UNCHANGED <<providerVars, registryVars, parserVars>>

BuilderNext ==
    \/ \E b \in Builders, d \in Docs : BuildCall(b, d)
    \/ \E outcome \in ParseOutcomes : BuildParse(outcome)
    \/ BuildStore
    \/ BuildComputeScope
    \/ BuildValidate
    \/ BuildSend

Init == ProviderInit /\ RegistryInit /\ ParserInit /\ BuilderInit

ProviderSpec == Init /\ [][ProviderNext]_vars

RegistrySpec == Init /\ [][RegistryNext]_vars

ParserSpec == Init /\ [][ParserNext]_vars

BuilderSpec == Init /\ [][BuilderNext]_vars

(***************************************************************************)
(* Properties of the diagnostics provider.                                 *)
(***************************************************************************)
\* the diagnostics a report cached under URI u should hold: those of the
\* current content version of the document the URI string identifies
CurrentDiagnostics(u) == Diagnostics(DocOf(u.str), docVersion[DocOf(u.str)])

\* C1: every cached report was built after the last change/delete notification
\* for the URI string it is cached under, from the validated diagnostics of
\* the document's current content.
C1_NoStaleReportCached ==
    \A u \in DOMAIN existingReports : existingReports[u].items = CurrentDiagnostics(u)

\* C2: the first pull of a document after an update notification listed its
\* URI string does not answer from the cache: it suspends in waitUntil.
C2_NextPullAfterNotificationWaits ==
    [][\A p \in Calls, d \in Docs, prev \in PreviousResultIds :
          (GetDocumentDiagnostics(p, d, prev) /\ docVersion[d] > 0 /\ returnedIds[d] = {})
              => pc'[p] = "await63"]_vars

\* C3: with no report cached the call only suspends; the report is created
\* when the wait has completed: kind full, the document's diagnostics of that
\* moment, a result id never minted before, and the same report is in the
\* cache under the document's URI when the call returns.
C3_MissWaitsThenCachesFreshFullReport ==
    [][/\ \A p \in Calls, d \in Docs, prev \in PreviousResultIds :
            (GetDocumentDiagnostics(p, d, prev) /\ ~MapHas(existingReports, DocUri(d)))
                => /\ pc'[p] = "await63"
                   /\ UNCHANGED <<nextId, existingReports, response, minted>>
       /\ \A p \in Calls :
            ResumeAfterWait(p)
                => /\ docState[callDoc[p]] = "Validated"
                   /\ response'.kind = "full"
                   /\ response'.items = docDiagnostics'[callDoc[p]]
                   /\ response'.items = Diagnostics(callDoc[p], docVersion[callDoc[p]])
                   /\ response'.resultId \notin Range(minted)
                   /\ Range(minted') = Range(minted) \cup {response'.resultId}
                   /\ MapHas(existingReports', DocUri(callDoc[p]))
                   /\ existingReports'[DocUri(callDoc[p])] = response'
                   /\ returnLine' = 68]_vars

C3_Witness ==
    /\ returnLine = 68
    /\ response.kind = "full"
    /\ \E d \in Docs : /\ MapHas(existingReports, DocUri(d))
                        /\ existingReports[DocUri(d)] = response

\* C4: a report is cached and previousResultId equals its resultId: the call
\* returns {kind: 'unchanged', resultId} with exactly that id and no items, at
\* once, and leaves the counter and the cache as they are.
C4_UpToDateClientGetsUnchanged ==
    [][\A p \in Calls, d \in Docs, prev \in PreviousResultIds :
          (/\ GetDocumentDiagnostics(p, d, prev)
           /\ MapHas(existingReports, DocUri(d))
           /\ prev.present
           /\ prev.str = existingReports[DocUri(d)].resultId)
              => /\ response' = [kind |-> "unchanged",
                                 resultId |-> existingReports[DocUri(d)].resultId]
                 /\ returnLine' = 54
                 /\ pc'[p] = "idle"
                 /\ UNCHANGED <<nextId, existingReports, minted>>]_vars

C4_Witness ==
    /\ returnLine = 54
    /\ response.kind = "unchanged"
    /\ \E d \in Docs : /\ MapHas(existingReports, DocUri(d))
                        /\ existingReports[DocUri(d)].resultId = response.resultId

\* C5: a report is cached and previousResultId is absent or differs from its
\* resultId: the call returns the cached full report itself, at once, and
\* leaves the counter and the cache as they are.
C5_OutOfDateClientGetsCachedReport ==
    [][\A p \in Calls, d \in Docs, prev \in PreviousResultIds :
          (/\ GetDocumentDiagnostics(p, d, prev)
           /\ MapHas(existingReports, DocUri(d))
           /\ (~prev.present \/ prev.str # existingReports[DocUri(d)].resultId))
              => /\ response' = existingReports[DocUri(d)]
                 /\ response'.kind = "full"
                 /\ returnLine' = 58
                 /\ pc'[p] = "idle"
                 /\ UNCHANGED <<nextId, existingReports, minted>>]_vars

C5_Witness ==
    /\ returnLine = 58
    /\ response.kind = "full"
    /\ Len(minted) > 1
    /\ \E d \in Docs : /\ MapHas(existingReports, DocUri(d))
                        /\ existingReports[DocUri(d)] = response

\* C6: while a document receives no update notification, a pull presenting a
\* resultId that an earlier pull of that document returned gets 'unchanged'
\* with the same id, at once.
C6_ReturnedIdStaysUnchanged ==
    [][\A p \in Calls, d \in Docs, prev \in PreviousResultIds :
          (/\ GetDocumentDiagnostics(p, d, prev)
           /\ prev.present
           /\ prev.str \in returnedIds[d])
              => /\ pc'[p] = "idle"
                 /\ returnLine' = 54
                 /\ response' = [kind |-> "unchanged", resultId |-> prev.str]]_vars

\* the number a decimal digit string denotes
RECURSIVE ParseNumber(_)
ParseNumber(s) ==
    IF s = <<>> THEN 0
    ELSE ParseNumber(SubSeq(s, 1, Len(s) - 1)) * 10 + s[Len(s)]

\* C7: the result ids minted by the provider are strictly increasing as
\* numbers, so no two minted reports share one.
C7_ResultIdsStrictlyIncrease ==
    \A i \in DOMAIN minted : \A j \in DOMAIN minted :
        i < j => ParseNumber(minted[i]) < ParseNumber(minted[j])

C7_Witness ==
    /\ Len(minted) >= 3
    /\ \A d \in Docs : MapHas(existingReports, DocUri(d))
    /\ \E d \in Docs : docVersion[d] > 0

\* C8: a call whose wait is cancelled ends with the cancellation failure and
\* no report, and leaves the cache and the counter as they are.
C8_CancelledWaitChangesNothing ==
    [][\A p \in Calls :
          CancelWait(p)
              => /\ response' = CancellationFailure
                 /\ returnLine' = 63
                 /\ pc'[p] = "idle"
                 /\ UNCHANGED <<nextId, existingReports, minted>>]_vars

C8_Witness ==
    /\ returnLine = 63
    /\ response = CancellationFailure
    /\ nextId > 0

\* C26: an update notification removes no report but those cached under the
\* URIs it lists: the report of every other URI and of every document whose
\* URI is not listed stays cached as it is, and the counter keeps its value,
\* so the next pull of such a document is answered from the same report
C26_UpdateKeepsUnlistedReports ==
    [][\A changed \in UpdateLists, deleted \in UpdateLists :
          Update(changed, deleted)
              => LET listed == Range(changed \o deleted)
                 IN /\ nextId' = nextId
                    /\ DOMAIN existingReports' \subseteq DOMAIN existingReports
                    /\ \A u \in DOMAIN existingReports \ listed :
                           /\ MapHas(existingReports', u)
                           /\ existingReports'[u] = existingReports[u]
                    /\ \A d \in Docs :
                           (/\ MapHas(existingReports, DocUri(d))
                            /\ DocUri(d).str \notin {u.str : u \in listed})
                               => /\ MapHas(existingReports', DocUri(d))
                                  /\ \A prev \in PreviousResultIds :
                                         CachedResponse(existingReports'[DocUri(d)], prev)
                                             = CachedResponse(existingReports[DocUri(d)], prev)]_vars

C26_Witness ==
    /\ MapHas(existingReports, DocUri("d2"))
    /\ ~MapHas(existingReports, DocUri("d1"))
    /\ Len(minted) = 2
    /\ existingReports[DocUri("d2")].resultId = minted[1]
    /\ docVersion["d1"] = 1
    /\ docVersion["d2"] = 0

(***************************************************************************)
(* Properties of the validation registry.                                  *)
(***************************************************************************)
\* the checks behind the wrappers getChecks(type) returns, in order
ChecksOf(type) == [i \in 1..Len(GetChecks(type)) |-> GetChecks(type)[i].check]

\* the registrations that apply to a type: those for the type or a supertype
RegistrationsFor(type) == SelectSeq(registrations, LAMBDA r : IsSubtype(type, r.type))

\* C9: for every type S of the hierarchy getChecks(S) is exactly the checks
\* registered for S or for a supertype of S, in registration order; empty
\* when there is none.
C9_ChecksAreThoseOfSupertypesInOrder ==
    \A S \in TypeNames :
        ChecksOf(S) = [i \in 1..Len(RegistrationsFor(S)) |-> RegistrationsFor(S)[i].check]

C9_Witness ==
    /\ Len(GetChecks("C")) = 3
    /\ Len(GetChecks("A")) = 1
    /\ GetChecks("D") = <<>>
    /\ \E i \in DOMAIN registrations : registrations[i].type = "B"
    /\ ChecksOf("C")[1] # ChecksOf("C")[2]

\* the diagnostics a run over the nodes has to deliver when every check runs
\* on every node of its types: node by node, check by check
RECURSIVE ExpectedDiagnostics(_, _)
ExpectedDiagnostics(nodes, i) ==
    IF i > Len(nodes) THEN <<>>
    ELSE LET regs == RegistrationsFor(nodes[i])
             one(r) == [k \in 1..Accepts(r.check) |->
                           [node |-> [index |-> i, type |-> nodes[i]], check |-> r.check]]
             all[j \in 0..Len(regs)] ==
                 IF j = 0 THEN <<>> ELSE all[j - 1] \o one(regs[j])
         IN all[Len(regs)] \o ExpectedDiagnostics(nodes, i + 1)

\* a diagnostic without the receiver its check ran with
Reported(diagnostics) ==
    [i \in 1..Len(diagnostics) |->
        [node |-> diagnostics[i].node, check |-> diagnostics[i].check]]

\* C10: no check handed out by getChecks lets an exception out; in a run the
\* diagnostics accepted before a throw are kept and every other check, for
\* the same node, for other nodes and for other types, still runs and reports.
C10_ThrowingCheckIsIsolated ==
    [][ValidateDocument(lastRun'.nodes)
          => /\ ~lastRun'.threw
             /\ Reported(lastRun'.diagnostics) = ExpectedDiagnostics(lastRun'.nodes, 1)
             /\ \A S \in TypeNames : \A i \in DOMAIN GetChecks(S) :
                    ~InvokeWrapped(GetChecks(S)[i], [index |-> 1, type |-> S]).threw]_vars

C10_Witness ==
    /\ Len(lastRun.nodes) = 2
    /\ lastRun.nodes[1] = "D"
    /\ lastRun.nodes[2] \in {"A", "B", "C"}
    /\ ~lastRun.threw
    /\ \E i \in DOMAIN lastRun.diagnostics : \E j \in DOMAIN lastRun.diagnostics :
          /\ i < j
          /\ lastRun.diagnostics[i].check = "kReportThenThrow"
          /\ lastRun.diagnostics[i].node.index = 1
          /\ lastRun.diagnostics[j].node.index = 2

\* C27: every check that getChecks hands out runs with the thisObj it was
\* registered with as its receiver; the registry itself when thisObj was
\* omitted
C27_CheckRunsWithThisObj ==
    \A S \in TypeNames : \A i \in DOMAIN GetChecks(S) :
        \A d \in Range(InvokeWrapped(GetChecks(S)[i], [index |-> 1, type |-> S]).accepted) :
            d.receiver = GetChecks(S)[i].boundThis

(***************************************************************************)
(* Properties of the parser.                                               *)
(***************************************************************************)
\* C11: the linker is called at most once per Reference, and every read of
\* ref returns what the first read returned, a node or unresolved
C11_LinkerCalledAtMostOnce ==
    \A r \in DOMAIN references :
        /\ references[r].linked <= 1
        /\ references[r].first # NotRead => references[r].last = references[r].first

\* C12: once a read of ref has returned a node, every later read returns
\* that node and does not call the linker, whatever the linker would return
C12_ResolvedTargetIsKept ==
    [][\A r \in DOMAIN references, target \in LinkTargets :
           (ReadRef(r, target) /\ references[r].last.kind = "object")
               => /\ references'[r].last = references[r].last
                  /\ references'[r].linked = references[r].linked]_vars

C12_Witness ==
    \E r \in DOMAIN references :
        /\ references[r].first = Undef
        /\ references[r].last.kind = "object"
        /\ references[r].linked = MaxLinkCalls

\* C13: parse always returns a result; no exception leaves parse
C13_ParseNeverThrows == parseResult.kind # "threw"

ChildNodes(p) == {v.id : v \in {w \in HeldValues(objects[p]) : w.kind = "object"}}

RECURSIVE TreeFrom(_, _)
TreeFrom(seen, frontier) ==
    IF frontier \subseteq seen
    THEN seen
    ELSE TreeFrom(seen \cup frontier, UNION {ChildNodes(p) : p \in frontier})

\* C14: in the tree parse returned, every node held in a non-$ property of a
\* node p, directly or in an array, has p as its $container
C14_ChildrenKnowTheirContainer ==
    parseResult.kind = "returned" =>
        \A p \in TreeFrom({}, {parseResult.value.id}) :
            \A n \in ChildNodes(p) : GetProp(objects[n], ContainerKey) = Node(p)

\* C15: the object a rule invocation returns holds a sequence in every
\* feature its rule assigns with '+=', also when nothing was appended
C15_ArrayFeaturesAreSequences ==
    [][\A ending \in Endings :
           (RuleReturn(ending) /\ phase = "parsing")
               => LET exit == StartImplementationExit(Machine, FALSE, ending)
                  IN exit.result.kind = "object" =>
                         \A a \in calls[Len(calls)].rule.element :
                             a.operator = "+=" =>
                                 GetProp(exit.objects[exit.result.id],
                                         StripCaret(a.feature)).kind = "array"]_vars

\* what a feature holds before an append, as a sequence
Prior(old) == IF old.kind = "array" THEN old.items ELSE <<>>

\* the feature of the object obj in the next state is prior with item appended
Appended(obj, feature, prior, item) ==
    LET new == GetProp(objects'[obj], StripCaret(feature))
    IN /\ new.kind = "array"
       /\ new.items = prior \o <<item>>

\* C16: every '+=' assignment, of a token, a Reference, a subrule result or
\* the previous object of an action, leaves the feature of the frame's object
\* holding a sequence, never a scalar: the values appended before, in their
\* order, followed by the new value; the first append creates the sequence
C16_AppendKeepsOrder ==
    [][/\ \A image \in TokenImages, a \in Assignments :
              (Consume(image, a) /\ phase = "parsing" /\ a.operator = "+="
                                 /\ stack # <<>> /\ nodeStack # <<>>)
                  => Appended(Current(Machine).object, a.feature,
                              Prior(GetProp(objects[Current(Machine).object],
                                            StripCaret(a.feature))),
                              IF a.crossRef THEN Ref(Len(references')) ELSE Str(<<image>>))
       /\ \A ending \in Endings :
              (RuleReturn(ending) /\ phase = "parsing")
                  => LET exit == StartImplementationExit(Machine, FALSE, ending)
                         a == calls[Len(calls)].assignment
                     IN (~exit.threw /\ exit.stack # <<>> /\ a.operator = "+=")
                            => Appended(Current(exit).object, a.feature,
                                        Prior(GetProp(exit.objects[Current(exit).object],
                                                      StripCaret(a.feature))),
                                        exit.result)
       /\ \A a \in Actions :
              (Action(ActionType, a) /\ phase = "parsing" /\ a.operator = "+="
                                     /\ stack # <<>> /\ ~Current(Machine).executedAction)
                  => Appended(Len(objects) + 1, a.feature, <<>>,
                              Node(Current(Machine).object))]_vars

C16_Witness ==
    \E o \in DOMAIN objects :
        /\ GetProp(objects[o], <<"a">>).kind = "array"
        /\ Len(GetProp(objects[o], <<"a">>).items) = 2
        /\ GetProp(objects[o], <<"a">>).items[1].kind = "string"
        /\ GetProp(objects[o], <<"a">>).items[2].kind = "object"

\* the objects of the next state are those of before, but that the feature of
\* obj holds value
OnlyFeatureSet(before, obj, feature, value) ==
    objects' = [before EXCEPT ![obj] = SetProp(@, StripCaret(feature), value)]

\* C17: an '=' assignment leaves the feature holding the assigned value, a
\* '?=' assignment leaves it holding true; no other feature, object or frame
\* changes
C17_OverwriteAndFlag ==
    [][/\ \A image \in TokenImages, a \in Assignments :
              (Consume(image, a) /\ phase = "parsing" /\ a.operator \in {"=", "?="}
                                 /\ stack # <<>> /\ nodeStack # <<>>)
                  => /\ OnlyFeatureSet(objects, Current(Machine).object, a.feature,
                            IF a.operator = "?=" THEN True
                            ELSE IF a.crossRef THEN Ref(Len(references'))
                            ELSE Str(<<image>>))
                     /\ stack' = stack
       /\ \A ending \in Endings :
              (RuleReturn(ending) /\ phase = "parsing")
                  => LET exit == StartImplementationExit(Machine, FALSE, ending)
                         a == calls[Len(calls)].assignment
                     IN (~exit.threw /\ exit.stack # <<>> /\ a.operator \in {"=", "?="})
                            => /\ OnlyFeatureSet(exit.objects, Current(exit).object, a.feature,
                                      IF a.operator = "?=" THEN True ELSE exit.result)
                               /\ stack' = exit.stack]_vars

C17_Witness ==
    \E o \in DOMAIN objects :
        /\ GetProp(objects[o], <<"a">>).kind = "object"
        /\ GetProp(objects[o], <<"b">>) = True
        /\ input.tokens = 0

\* C18: the first action of a frame replaces the frame's object by a new
\* object of the action's type that holds the previous object under the
\* action's feature as the operator says, and marks the frame; a later action
\* of the frame changes nothing; the depth of the stack stays
C18_OneActionPerFrame ==
    [][\A a \in Actions :
           (Action(ActionType, a) /\ phase = "parsing" /\ stack # <<>>)
               => IF Current(Machine).executedAction
                  THEN UNCHANGED <<stack, objects>>
                  ELSE LET previous == Node(Current(Machine).object)
                           fresh == Len(objects) + 1
                           held == IF a.operator = "=" THEN previous
                                   ELSE IF a.operator = "+=" THEN Arr(<<previous>>)
                                   ELSE True
                       IN /\ stack' = Append(Front(stack),
                                             [object |-> fresh, executedAction |-> TRUE])
                          /\ objects' = Append(objects,
                                 IF a = NoAssignment
                                 THEN NewObject(ActionType)
                                 ELSE SetProp(NewObject(ActionType), StripCaret(a.feature), held))]_vars

C18_Witness ==
    /\ stack # <<>>
    /\ stack[Len(stack)].executedAction
    /\ GetProp(objects[stack[Len(stack)].object], <<"a">>).kind = "object"
    /\ Len(objects) = MaxObjects

\* C19: a rule invocation whose frame object has the type String returns the
\* text of its CST node, one whose frame object has the type Number returns
\* the number that text stands for, and it pops its own frame only
C19_PrimitiveRulesReturnText ==
    [][\A ending \in Endings :
           (/\ RuleReturn(ending)
            /\ phase = "parsing"
            /\ stack # <<>>
            /\ nodeStack # <<>>
            /\ GetProp(objects[Current(Machine).object], TypeKey) \in {StringType, NumberType})
               => LET exit == StartImplementationExit(Machine, FALSE, ending)
                      text == nodeStack[Len(nodeStack)]
                  IN /\ ~exit.threw
                     /\ exit.result = IF StringIs(objects[Current(Machine).object])
                                      THEN Str(text)
                                      ELSE ParseFloat(text)
                     /\ exit.stack = Front(stack)]_vars

\* C20: in the recording phase no operation changes the stack or an object,
\* builds a Reference or touches the nodes of the CST node builder
C20_RecordingChangesNothing ==
    [][(phase = "recording" /\ phase' = "recording")
           => UNCHANGED <<stack, objects, references, nodeStack>>]_vars

C20_Witness ==
    /\ phase = "recording"
    /\ calls # <<>>
    /\ calls[Len(calls)].rule.type = NumberType

\* C23: outside the recording phase every rule invocation in progress has
\* exactly one frame, so an invocation leaves the stack at the depth it had on
\* entry however its body ends; the stack is empty after every parse, and
\* every parse starts from an empty stack
C23_OneFramePerInvocation ==
    /\ phase = "parsing" => Len(stack) = Len(calls)
    /\ phase = "idle" => stack = <<>>

\* the References a node holds in its non-$ properties, directly or in an array
HeldReferences(p) == {v.id : v \in {w \in HeldValues(objects[p]) : w.kind = "reference"}}

\* C24: for every Reference of the tree parse returned, the node the linker
\* is handed when the Reference is resolved is the node that holds it in the
\* tree, also when the Reference was assigned before an unassigned subrule or
\* an action replaced the object of the frame
C24_LinkerGetsTheHolder ==
    parseResult.kind = "returned" =>
        \A p \in TreeFrom({}, {parseResult.value.id}) :
            \A r \in HeldReferences(p) :
                references[r].linked > 0 => references[r].node = p

\* the properties of what a subrule returned: those of the object, none for
\* a string or a number
FeaturesOf(objs, result) == IF result.kind = "object" THEN objs[result.id] ELSE << >>

\* C25: when an unassigned subrule completes, the object of the calling frame
\* carries every feature of the sub-rule's result and every feature it had
\* before (its own value wins), its $type is that of the result if the result
\* has one, the depth of the stack is what it was before the subrule and the
\* executedAction flag of the frame is kept; a subrule under an assignment
\* stores its result under the feature and changes nothing else
C25_UnassignedSubruleMerges ==
    [][\A ending \in Endings :
           (RuleReturn(ending) /\ phase = "parsing"
                /\ calls[Len(calls)].how \in {"subrule", "unassignedSubrule"})
               => LET call == calls[Len(calls)]
                      exit == StartImplementationExit(Machine, FALSE, ending)
                      done == Resume(exit, FALSE)
                  IN (~exit.threw /\ ~done.threw) =>
                         /\ Len(stack) >= 2
                         /\ Len(stack') = Len(stack) - 1
                         /\ Front(stack') = SubSeq(stack, 1, Len(stack) - 2)
                         /\ LET frame == stack[Len(stack) - 1]
                                before == objects[frame.object]
                                sub == FeaturesOf(exit.objects, exit.result)
                                after == objects'[stack'[Len(stack')].object]
                                feature == StripCaret(call.assignment.feature)
                            IN IF call.how = "unassignedSubrule"
                               THEN /\ stack'[Len(stack')].executedAction = frame.executedAction
                                    /\ \A n \in DOMAIN before \ {TypeKey} :
                                           n \in DOMAIN after /\ after[n] = before[n]
                                    /\ \A n \in DOMAIN sub \ DOMAIN before :
                                           n \in DOMAIN after /\ after[n] = sub[n]
                                    /\ GetProp(after, TypeKey) =
                                           IF Falsy(GetProp(sub, TypeKey))
                                           THEN GetProp(before, TypeKey)
                                           ELSE GetProp(sub, TypeKey)
                               ELSE /\ stack'[Len(stack')] = frame
                                    /\ objects' = [exit.objects EXCEPT ![frame.object] =
                                           SetProp(@, feature,
                                                   AssignedValue(call.assignment.operator,
                                                                 GetProp(@, feature),
                                                                 exit.result))]]_vars

(***************************************************************************)
(* Properties of the document builder.                                     *)
(***************************************************************************)
\* what a build logs, in order: its call and the stages it passes
BuildStages == <<"build", "parse", "store", "computeScope", "validateDocument">>

\* the stages logged for build n, in the order they were passed
RECURSIVE StagesLogged(_, _)
StagesLogged(log, n) ==
    IF log = <<>>
    THEN <<>>
    ELSE IF log[Len(log)].build = n
    THEN Append(StagesLogged(Front(log), n), log[Len(log)].stage)
    ELSE StagesLogged(Front(log), n)

\* the messages sent by build n
SentBy(n) == SelectSeq(sentDiagnostics, LAMBDA message : message.build = n)

IsPrefix(s, t) == Len(s) <= Len(t) /\ SubSeq(t, 1, Len(s)) = s

\* build n has returned or thrown
Completed(n) == n <= buildCount /\ building.n # n

\* the call of build n, as logged
CallOf(n) == CHOOSE e \in Range(stageLog) : e.build = n /\ e.stage = "build"

\* C21: in every build the stages run in a fixed order without overlap:
\* parsing completes and its result is stored before scope computation
\* starts, scope computation completes before validation starts, and the
\* diagnostics are sent for the document's URI only after validation, exactly
\* once per build of a builder with a connection and never by one without
C21_StagesRunInOrderAndSendOnce ==
    /\ \A i \in 1..Len(stageLog) - 1 : stageLog[i].build <= stageLog[i + 1].build
    /\ \A i \in DOMAIN stageLog :
           stageLog[i].stage = "computeScope" =>
               /\ i > 2
               /\ stageLog[i - 1].stage = "store"
               /\ documents[stageLog[i].doc].parseResult # 0
    /\ \A n \in 1..buildCount :
           LET stages == StagesLogged(stageLog, n)
               sent == SentBy(n)
           IN /\ IsPrefix(stages, BuildStages)
              /\ sent # <<>> => stages = BuildStages
              /\ \A i \in DOMAIN sent : sent[i].uri = DocUri(CallOf(n).doc)
              /\ ~Connection(CallOf(n).builder) => sent = <<>>
              /\ Len(sent) <= 1
              /\ (Completed(n) /\ Connection(CallOf(n).builder)) => Len(sent) = 1

\* C22: a stage that a document has passed is not executed on it again (the
\* builder has no operation that invalidates a document)
C22_PassedStagesAreNotRepeated ==
    \A d \in Docs, stage \in {"parse", "computeScope", "validateDocument"} :
        Cardinality({i \in DOMAIN stageLog :
                        stageLog[i].doc = d /\ stageLog[i].stage = stage}) <= 1

====
